---- MODULE Spec2Model ----
(***************************************************************************)
(* Finder (src/Finder.py): the boolean phrase-formula engine               *)
(* (normalisation, validation, evaluation) and the search worker that      *)
(* applies it to files.                                                    *)
(*                                                                         *)
(* Text is modelled as a sequence of one-character strings, so that the    *)
(* string operations of the program (replace, upper, strip, substring,     *)
(* regular-expression tokenising) are computed the way Python computes     *)
(* them and not assumed.                                                   *)
(***************************************************************************)
EXTENDS Integers, Sequences, FiniteSets, TLC

(***************************************************************************)
(* Bounds of the model.                                                    *)
(***************************************************************************)
\* number of pieces (brackets, operands) a bracket-check formula is made of
MaxBracketPieces == 4
\* number of words of a formula typed for validation
MaxWords == 4
\* number of words of a formula typed before a search
MaxSearchWords == 2
\* number of files under the search path
MaxFiles == 2
\* number of characters (operands, symbolic operators) of a formula typed
\* with symbolic operators
MaxSymbolPieces == 4
\* number of words of a formula typed with varying whitespace
MaxSpacedWords == 4
\* number of words of a formula typed while phrases are edited
MaxOperandWords == 3

(***************************************************************************)
(* Characters and Python's str primitives.                                 *)
(***************************************************************************)
\* the characters that occur in the model, in code-point order
CharTable ==
  << "\t", "\n", " ", "!", "&", "(", ")", ".", ":",
     "A", "B", "C", "D", "E", "F", "G", "H", "I", "J", "K", "L", "M",
     "N", "O", "P", "Q", "R", "S", "T", "U", "V", "W", "X", "Y", "Z",
     "[", "]", "^",
     "a", "b", "c", "d", "e", "f", "g", "h", "i", "j", "k", "l", "m",
     "n", "o", "p", "q", "r", "s", "t", "u", "v", "w", "x", "y", "z",
     "{", "|", "}", "~" >>

LowerChars ==
  << "a", "b", "c", "d", "e", "f", "g", "h", "i", "j", "k", "l", "m",
     "n", "o", "p", "q", "r", "s", "t", "u", "v", "w", "x", "y", "z" >>

UpperChars ==
  << "A", "B", "C", "D", "E", "F", "G", "H", "I", "J", "K", "L", "M",
     "N", "O", "P", "Q", "R", "S", "T", "U", "V", "W", "X", "Y", "Z" >>

LowerCharSet == {LowerChars[k] : k \in 1..Len(LowerChars)}
UpperCharSet == {UpperChars[k] : k \in 1..Len(UpperChars)}

\* str.upper() / str.lower() on one character
UpperChar(c) ==
  IF c \in LowerCharSet
  THEN UpperChars[CHOOSE k \in 1..26 : LowerChars[k] = c]
  ELSE c

LowerChar(c) ==
  IF c \in UpperCharSet
  THEN LowerChars[CHOOSE k \in 1..26 : UpperChars[k] = c]
  ELSE c

\* str.upper(), str.lower()
Upper(s) == << >> \o [k \in 1..Len(s) |-> UpperChar(s[k])]
Lower(s) == << >> \o [k \in 1..Len(s) |-> LowerChar(s[k])]

\* the characters str.strip() removes
IsSpace(c) == c \in {" ", "\t", "\n"}

\* str.strip()
Strip(s) ==
  IF \A k \in 1..Len(s) : IsSpace(s[k])
  THEN << >>
  ELSE LET first == CHOOSE i \in 1..Len(s) :
                      /\ ~IsSpace(s[i])
                      /\ \A j \in 1..(i-1) : IsSpace(s[j])
           last  == CHOOSE i \in 1..Len(s) :
                      /\ ~IsSpace(s[i])
                      /\ \A j \in (i+1)..Len(s) : IsSpace(s[j])
       IN  SubSeq(s, first, last)

\* s[i:].startswith(p), positions counted from 1
StartsAt(s, p, i) ==
  /\ i + Len(p) - 1 <= Len(s)
  /\ \A k \in 1..Len(p) : s[i + k - 1] = p[k]

\* p in s  (substring test)
Contains(s, p) == \E i \in 1..(Len(s) - Len(p) + 1) : StartsAt(s, p, i)

RECURSIVE ReplaceFrom(_, _, _, _)
ReplaceFrom(s, old, new, i) ==
  IF i > Len(s) THEN << >>
  ELSE IF StartsAt(s, old, i)
       THEN new \o ReplaceFrom(s, old, new, i + Len(old))
       ELSE << s[i] >> \o ReplaceFrom(s, old, new, i + 1)

\* str.replace(old, new): left to right, non-overlapping, old not empty
Replace(s, old, new) == ReplaceFrom(s, old, new, 1)

RECURSIVE FindAllFrom(_, _, _)
FindAllFrom(s, alts, i) ==
  IF i > Len(s) THEN << >>
  ELSE LET matching == {k \in 1..Len(alts) : StartsAt(s, alts[k], i)} IN
       IF matching # {}
       THEN LET m == CHOOSE k \in matching : \A j \in matching : k <= j
            IN  << alts[m] >> \o FindAllFrom(s, alts, i + Len(alts[m]))
       ELSE FindAllFrom(s, alts, i + 1)

\* re.findall of an alternation of literals: at each position the first
\* alternative that matches wins, unmatched characters are skipped
FindAll(s, alts) == FindAllFrom(s, alts, 1)

RECURSIVE JoinWith(_, _)
\* sep.join(list)
JoinWith(ss, sep) ==
  IF ss = << >> THEN << >>
  ELSE IF Len(ss) = 1 THEN ss[1]
  ELSE ss[1] \o sep \o JoinWith(Tail(ss), sep)

\* the characters of a string, as a set
CharsOf(s) == {s[k] : k \in 1..Len(s)}

RECURSIVE SortedChars(_)
\* sorted(set of characters)
SortedChars(cs) ==
  IF cs = {} THEN << >>
  ELSE LET \* position in code-point order (order-preserving ord())
           ord == [x \in cs |->
                    CHOOSE k \in 1..Len(CharTable) : CharTable[k] = x]
           c == CHOOSE x \in cs : \A y \in cs : ord[x] <= ord[y]
       IN  << c >> \o SortedChars(cs \ {c})

(***************************************************************************)
(* The formula language.                                                   *)
(***************************************************************************)
Letters == << "A", "B", "C", "D", "E", "F" >>
LetterSet == {"A", "B", "C", "D", "E", "F"}
ABCDEF == Letters

W_AND  == << "A", "N", "D" >>
W_OR   == << "O", "R" >>
W_NOT  == << "N", "O", "T" >>
W_NOR  == << "N", "O", "R" >>
W_XOR  == << "X", "O", "R" >>
W_XNOR == << "X", "N", "O", "R" >>

Openers == {"(", "[", "{"}
Closers == {")", "]", "}"}

(***************************************************************************)
(* Messages.  An error or warning is the text the program builds, kept as  *)
(* its kind and the values formatted into it.                              *)
(***************************************************************************)
Msg(kind, t1, t2, p1, p2) ==
  [kind |-> kind, t1 |-> t1, t2 |-> t2, p1 |-> p1, p2 |-> p2]

\* a map that rewrites '~' to the symbol '!', which the loop has passed
operator_map_TildeToBang ==
  << << << "&" >>,      << " " >> \o W_AND \o << " " >> >>,
     << << "&", "&" >>, << " " >> \o W_AND \o << " " >> >>,
     << << "|" >>,      << " " >> \o W_OR  \o << " " >> >>,
     << << "|", "|" >>, << " " >> \o W_OR  \o << " " >> >>,
     << << "!" >>,      << " " >> \o W_NOT \o << " " >> >>,
     << << "~" >>,      << " ", "!", " " >> >>,
     << << "^" >>,      << " " >> \o W_XOR \o << " " >> >> >>

(***************************************************************************)
(* Finder._normalize_operators                                             *)
(***************************************************************************)
\* operator_map, in the insertion order the loop iterates it
operator_map ==
  << << << "&" >>,      << " " >> \o W_AND \o << " " >> >>,
     << << "&", "&" >>, << " " >> \o W_AND \o << " " >> >>,
     << << "|" >>,      << " " >> \o W_OR  \o << " " >> >>,
     << << "|", "|" >>, << " " >> \o W_OR  \o << " " >> >>,
     << << "!" >>,      << " " >> \o W_NOT \o << " " >> >>,
     << << "~" >>,      << " " >> \o W_NOT \o << " " >> >>,
     << << "^" >>,      << " " >> \o W_XOR \o << " " >> >> >>

RECURSIVE ApplyReplacements(_, _, _)
ApplyReplacements(s, map, k) ==
  IF k > Len(map) THEN s
  ELSE ApplyReplacements(Replace(s, map[k][1], map[k][2]), map, k + 1)

_normalize_operators(formula) == ApplyReplacements(formula, operator_map, 1)

(***************************************************************************)
(* Finder._check_balanced_parentheses_detailed                             *)
(***************************************************************************)
\* pairs = {'(': ')', '[': ']', '{': '}'}
pairs(c) == IF c = "(" THEN ")" ELSE IF c = "[" THEN "]" ELSE "}"

RECURSIVE UnclosedErrors(_)
\* the loop over the openers left on the stack, bottom first
UnclosedErrors(stack) ==
  IF stack = << >> THEN << >>
  ELSE << Msg("Unclosed", << stack[1][1] >>, << >>, stack[1][2] + 1, 0) >>
       \o UnclosedErrors(Tail(stack))

RECURSIVE ScanBrackets(_, _, _, _)
\* the scan over enumerate(formula); i is the 0-based index of the program
ScanBrackets(formula, i, stack, errors) ==
  IF i >= Len(formula)
  THEN errors \o UnclosedErrors(stack)
  ELSE LET char == formula[i + 1] IN
       IF char \in Openers
       THEN ScanBrackets(formula, i + 1, Append(stack, << char, i >>), errors)
       ELSE IF char \in Closers
       THEN IF stack = << >>
            THEN ScanBrackets(formula, i + 1, stack,
                   Append(errors,
                          Msg("UnmatchedClosing", << char >>, << >>, i + 1, 0)))
            ELSE LET top      == stack[Len(stack)]
                     open_char == top[1]
                     open_pos  == top[2]
                     popped   == SubSeq(stack, 1, Len(stack) - 1)
                 IN  IF pairs(open_char) # char
                     THEN ScanBrackets(formula, i + 1, popped,
                            Append(errors,
                                   Msg("Mismatched", << open_char >>, << char >>,
                                       open_pos + 1, i + 1)))
                     ELSE ScanBrackets(formula, i + 1, popped, errors)
       ELSE ScanBrackets(formula, i + 1, stack, errors)

\* the bracket check without its final loop over the openers left open
BracketCheckWithoutUnclosed(formula) ==
  SelectSeq(ScanBrackets(formula, 0, << >>, << >>),
            LAMBDA e : e.kind # "Unclosed")

_check_balanced_parentheses_detailed(formula) ==
  ScanBrackets(formula, 0, << >>, << >>)

(***************************************************************************)
(* Finder._check_valid_tokens_detailed                                     *)
(***************************************************************************)
\* ['AND', 'OR', 'NOR', 'XOR', 'XNOR']
binary_ops == {W_AND, W_OR, W_NOR, W_XOR, W_XNOR}

RECURSIVE TokenSequenceErrors(_, _)
\* the loop over range(len(tokens) - 1); i is 1-based here
TokenSequenceErrors(tokens, i) ==
  IF i > Len(tokens) - 1 THEN << >>
  ELSE LET current    == tokens[i]
           next_token == tokens[i + 1]
           e1 == IF Contains(ABCDEF, current) /\ Contains(ABCDEF, next_token)
                 THEN << Msg("MissingOperator", current, next_token, 0, 0) >>
                 ELSE << >>
           e2 == IF current \in binary_ops /\ next_token \in binary_ops
                 THEN << Msg("ConsecutiveOperators", current, next_token, 0, 0) >>
                 ELSE << >>
       IN  e1 \o e2 \o TokenSequenceErrors(tokens, i + 1)

_check_valid_tokens_detailed(formula) ==
  LET normalized_formula == _normalize_operators(formula)
      clean_formula == Replace(Upper(normalized_formula), << " " >>, << >>)
      \* set('ABCDEF()[]{}ANDORNOTXR&|!~^')
      valid_chars ==
        {"A", "B", "C", "D", "E", "F", "(", ")", "[", "]", "{", "}",
         "N", "O", "R", "T", "X", "&", "|", "!", "~", "^"}
      invalid_chars == CharsOf(clean_formula) \ valid_chars
      e0 == IF invalid_chars # {}
            THEN << Msg("InvalidCharacters", SortedChars(invalid_chars),
                        << >>, 0, 0) >>
            ELSE << >>
      \* [A-F]|AND|OR|NOT|NOR|XOR|XNOR|&&?|\|\|?|!|~|\^|[()[\]{}]
      tokens ==
        FindAll(clean_formula,
          << << "A" >>, << "B" >>, << "C" >>, << "D" >>, << "E" >>, << "F" >>,
             W_AND, W_OR, W_NOT, W_NOR, W_XOR, W_XNOR,
             << "&", "&" >>, << "&" >>, << "|", "|" >>, << "|" >>,
             << "!" >>, << "~" >>, << "^" >>,
             << "(" >>, << ")" >>, << "[" >>, << "]" >>, << "{" >>, << "}" >> >>)
  IN  IF tokens = << >>
      THEN Append(e0, Msg("NoValidTokens", << >>, << >>, 0, 0))
      ELSE e0 \o TokenSequenceErrors(tokens, 1)

(***************************************************************************)
(* Finder._check_logical_structure                                         *)
(***************************************************************************)
RECURSIVE StructureErrors(_, _)
\* the loop over enumerate(tokens); i is the 0-based index of the program
StructureErrors(tokens, i) ==
  IF i >= Len(tokens) THEN << >>
  ELSE LET token == tokens[i + 1]
           here ==
             IF token \in binary_ops
             THEN IF i = 0
                  THEN << Msg("NeedsLeftOperand", token, << >>, 0, 0) >>
                  ELSE IF i = Len(tokens) - 1
                  THEN << Msg("NeedsRightOperand", token, << >>, 0, 0) >>
                  ELSE LET left_token  == tokens[i]
                           right_token == tokens[i + 2]
                       IN  (IF left_token \in binary_ops \/ left_token = W_NOT
                            THEN << Msg("MissingLeftOperand", token, << >>, 0, 0) >>
                            ELSE << >>)
                           \o
                           (IF right_token \in binary_ops
                            THEN << Msg("MissingRightOperand", token, << >>, 0, 0) >>
                            ELSE << >>)
             ELSE IF token = W_NOT
             THEN IF i = Len(tokens) - 1
                  THEN << Msg("NotNeedsOperand", token, << >>, 0, 0) >>
                  ELSE IF tokens[i + 2] \in binary_ops
                       THEN << Msg("NotMissingOperand", token, << >>, 0, 0) >>
                       ELSE << >>
             ELSE << >>
       IN  here \o StructureErrors(tokens, i + 1)

_check_logical_structure(formula) ==
  LET \* [A-F]|AND|OR|NOT|NOR|XOR|XNOR|[()[\]{}]
      tokens ==
        FindAll(Upper(_normalize_operators(formula)),
          << << "A" >>, << "B" >>, << "C" >>, << "D" >>, << "E" >>, << "F" >>,
             W_AND, W_OR, W_NOT, W_NOR, W_XOR, W_XNOR,
             << "(" >>, << ")" >>, << "[" >>, << "]" >>, << "{" >>, << "}" >> >>)
  IN  [errors   |-> IF tokens = << >> THEN << >> ELSE StructureErrors(tokens, 0),
       warnings |-> << >>]

(***************************************************************************)
(* Finder._check_paradoxes_detailed                                        *)
(***************************************************************************)
\* f'{letter} AND NOT {letter}', f'NOT {letter} AND {letter}' and the OR forms
RECURSIVE ParadoxWarnings(_, _, _, _)
\* one loop over 'ABCDEF' for the operator op
ParadoxWarnings(formula_upper, op, kind, k) ==
  IF k > Len(Letters) THEN << >>
  ELSE LET letter == Letters[k]
           pattern1 == << letter, " " >> \o op \o << " " >> \o W_NOT
                       \o << " ", letter >>
           pattern2 == W_NOT \o << " ", letter, " " >> \o op
                       \o << " ", letter >>
           here == IF \/ Contains(formula_upper, pattern1)
                      \/ Contains(formula_upper, pattern2)
                   THEN << Msg(kind, << letter >>, << >>, 0, 0) >>
                   ELSE << >>
       IN  here \o ParadoxWarnings(formula_upper, op, kind, k + 1)

\* formula_upper = formula.upper(), then the loop for AND and the loop for OR
ParadoxLoops(formula_upper) ==
  ParadoxWarnings(formula_upper, W_AND, "Paradox", 1)
  \o ParadoxWarnings(formula_upper, W_OR, "Tautology", 1)

_check_paradoxes_detailed(formula) == ParadoxLoops(Upper(formula))

(***************************************************************************)
(* State.                                                                  *)
(***************************************************************************)
VARIABLES
  formula_input,             \* Finder.formula_input: the text of the formula field
  phrase_inputs,             \* Finder.phrase_inputs: letter -> text of the phrase field
  case_sensitive_checkboxes, \* Finder.case_sensitive_checkboxes: letter -> checked
  _last_auto_formula,        \* Finder._last_auto_formula
  validation_result,         \* the dict _comprehensive_formula_validation returned last
  dialog,                    \* the modal message box that is open ("none": no box)
  rb_document,               \* Finder.rb_document: whole-document mode is selected
  cb_unique,                 \* Finder.cb_unique: "Unique" is checked
  btn_search_enabled,        \* Finder.btn_search.isEnabled()
  fs,                        \* the files under the selected search path, in os.walk order
  search_params,             \* SearchWorker.search_params
  is_cancelled,              \* SearchWorker.is_cancelled
  unique_matches,            \* SearchWorker.unique_matches (its keys)
  pc,                        \* where run_search stands
  files_to_search,           \* run_search: files_to_search
  file_index,                \* run_search: i, the index of the file loop
  matches,                   \* run_search: matches of the current file
  match_index,               \* run_search: how many of matches the inner loop has taken
  match_count,               \* run_search: match_count
  signals,                   \* the signals the worker has emitted, in order
  eval_result                \* the last call of _evaluate_formula and its outcome

finder_vars ==
  << formula_input, phrase_inputs, case_sensitive_checkboxes,
     _last_auto_formula, validation_result, dialog >>

form_vars == << rb_document, cb_unique, btn_search_enabled >>

worker_vars ==
  << search_params, is_cancelled, unique_matches, pc, files_to_search,
     file_index, matches, match_index, match_count, signals >>

vars == << finder_vars, form_vars, fs, worker_vars, eval_result >>

(***************************************************************************)
(* Finder._check_impossible_conditions                                     *)
(***************************************************************************)
\* a check that reports the letters without phrase as an error
ImpossibleConditionsNoPhraseAsError(formula) ==
  LET e == IF \/ Contains(formula, << "(", ")" >>)
              \/ Contains(formula, << "[", "]" >>)
              \/ Contains(formula, << "{", "}" >>)
           THEN << Msg("EmptyParentheses", << >>, << >>, 0, 0) >>
           ELSE << >>
      used_vars  == CharsOf(Upper(formula)) \cap LetterSet
      empty_vars == {var \in used_vars : Strip(phrase_inputs[var]) = << >>}
      w == IF empty_vars # {}
           THEN << Msg("NoPhrase", SortedChars(empty_vars), << >>, 0, 0) >>
           ELSE << >>
  IN  [errors |-> e \o w, warnings |-> << >>]

_check_impossible_conditions(formula) ==
  LET e == IF \/ Contains(formula, << "(", ")" >>)
              \/ Contains(formula, << "[", "]" >>)
              \/ Contains(formula, << "{", "}" >>)
           THEN << Msg("EmptyParentheses", << >>, << >>, 0, 0) >>
           ELSE << >>
      used_vars  == CharsOf(Upper(formula)) \cap LetterSet
      \* the program lists them in set-iteration order; kept sorted here
      empty_vars == {var \in used_vars : Strip(phrase_inputs[var]) = << >>}
      w == IF empty_vars # {}
           THEN << Msg("NoPhrase", SortedChars(empty_vars), << >>, 0, 0) >>
           ELSE << >>
  IN  [errors |-> e, warnings |-> w]

(***************************************************************************)
(* Finder._comprehensive_formula_validation                                *)
(***************************************************************************)
_comprehensive_formula_validation(formula) ==
  LET paren_result      == _check_balanced_parentheses_detailed(formula)
      token_result      == _check_valid_tokens_detailed(formula)
      structure_result  == _check_logical_structure(formula)
      paradox_result    == _check_paradoxes_detailed(formula)
      impossible_result == _check_impossible_conditions(formula)
      errors   == paren_result \o token_result \o structure_result.errors
                  \o impossible_result.errors
      warnings == structure_result.warnings \o paradox_result
                  \o impossible_result.warnings
  IN  [is_valid |-> Len(errors) = 0, errors |-> errors, warnings |-> warnings]

(***************************************************************************)
(* Finder._auto_construct_formula and Finder._update_auto_formula          *)
(***************************************************************************)
RECURSIVE ActiveVars(_, _)
\* the letters, in 'ABCDEF' order, whose phrase field is not blank
ActiveVars(inputs, k) ==
  IF k > Len(Letters) THEN << >>
  ELSE (IF Strip(inputs[Letters[k]]) # << >> THEN << << Letters[k] >> >> ELSE << >>)
       \o ActiveVars(inputs, k + 1)

_auto_construct_formula(inputs) ==
  JoinWith(ActiveVars(inputs, 1), << " " >> \o W_AND \o << " " >>)

\* a slot that puts the constructed formula into the field whatever the
\* field holds
UpdateAutoFormulaAlways(inputs) ==
  LET current_formula == Strip(formula_input)
      auto_formula    == _auto_construct_formula(inputs)
  IN  IF auto_formula # << >>
      THEN /\ formula_input' = auto_formula
           /\ _last_auto_formula' = auto_formula
      ELSE IF current_formula # << >>
      THEN /\ formula_input' = << >>
           /\ _last_auto_formula' = << >>
      ELSE UNCHANGED << formula_input, _last_auto_formula >>

\* the slot of textChanged of a phrase field; inputs is the new content of
\* the phrase fields
_update_auto_formula(inputs) ==
  LET current_formula == Strip(formula_input)
      auto_formula    == _auto_construct_formula(inputs)
  IN  IF current_formula = << >> \/ current_formula = _last_auto_formula
      THEN IF auto_formula # << >>
           THEN /\ formula_input' = auto_formula
                /\ _last_auto_formula' = auto_formula
           ELSE IF current_formula # << >>
           THEN /\ formula_input' = << >>
                /\ _last_auto_formula' = << >>
           ELSE UNCHANGED << formula_input, _last_auto_formula >>
      ELSE UNCHANGED << formula_input, _last_auto_formula >>

(***************************************************************************)
(* What the user does with the form.                                       *)
(***************************************************************************)
NoResult == [is_valid |-> TRUE, errors |-> << >>, warnings |-> << >>]

\* the user appends text to the formula field (no slot is connected to it)
TypeFormula(text) ==
  /\ dialog = "none"
  /\ formula_input' = formula_input \o text
  /\ UNCHANGED << phrase_inputs, case_sensitive_checkboxes, _last_auto_formula,
                  validation_result, dialog >>
  /\ UNCHANGED << form_vars, fs, worker_vars, eval_result >>

\* the user appends a word to the formula field, separated by a blank
TypeWord(word) ==
  TypeFormula(IF formula_input = << >> THEN word ELSE << " " >> \o word)

(***************************************************************************)
(* Finder._validate_formula_on_demand: the slot of the Validate button.    *)
(* The message box it opens is modal; what it shows is kept in dialog and  *)
(* validation_result until the user closes it.                             *)
(***************************************************************************)
_validate_formula_on_demand ==
  /\ dialog = "none"
  /\ LET formula == Strip(formula_input) IN
       IF formula = << >>
       THEN /\ dialog' = "NoFormula"
            /\ validation_result' = NoResult
       ELSE LET result == _comprehensive_formula_validation(formula) IN
            /\ validation_result' = result
            /\ dialog' = IF result.is_valid
                         THEN IF result.warnings # << >> THEN "Warnings"
                                                         ELSE "Success"
                         ELSE "Errors"
  /\ UNCHANGED << formula_input, phrase_inputs, case_sensitive_checkboxes,
                  _last_auto_formula >>
  /\ UNCHANGED << form_vars, fs, worker_vars, eval_result >>

\* the user closes the message box
CloseDialog ==
  /\ dialog # "none"
  /\ dialog' = "none"
  /\ validation_result' = NoResult
  /\ UNCHANGED << formula_input, phrase_inputs, case_sensitive_checkboxes,
                  _last_auto_formula >>
  /\ UNCHANGED << form_vars, fs, worker_vars, eval_result >>

\* Finder.__init__ and _create_phrase_section / _create_formula_section
FinderInit ==
  /\ formula_input = << >>
  /\ phrase_inputs = [l \in LetterSet |-> << >>]
  /\ case_sensitive_checkboxes = [l \in LetterSet |-> FALSE]
  /\ _last_auto_formula = << >>
  /\ validation_result = NoResult
  /\ dialog = "none"

(***************************************************************************)
(* Python's eval() on the expressions _evaluate_formula builds.  Those     *)
(* consist of names, the keywords True False and or not, the comparisons   *)
(* == and !=, blanks and the three kinds of brackets.  A value is a bool   *)
(* or a display (list, set, tuple, dict) of at most one value; "exc" is    *)
(* an exception raised while evaluating (NameError, TypeError, ...).       *)
(* A syntax error is found before anything is evaluated.                   *)
(***************************************************************************)
PyBool(b)     == [t |-> "bool",  b |-> b,     e |-> << >>]
PyExc         == [t |-> "exc",   b |-> FALSE, e |-> << >>]
PyDisplay(t, items) == [t |-> t, b |-> FALSE, e |-> items]

\* bool(v)
Truthy(v) == IF v.t = "bool" THEN v.b ELSE v.e # << >>

IsIdentChar(c) == c \in LowerCharSet \cup UpperCharSet

\* the end of the identifier that starts at i
RECURSIVE IdentEnd(_, _)
IdentEnd(s, i) ==
  IF i + 1 <= Len(s) /\ IsIdentChar(s[i + 1]) THEN IdentEnd(s, i + 1) ELSE i

RECURSIVE PyTokensFrom(_, _)
PyTokensFrom(s, i) ==
  IF i > Len(s) THEN << >>
  ELSE IF s[i] \in {" ", "\t"} THEN PyTokensFrom(s, i + 1)
  ELSE IF IsIdentChar(s[i])
  THEN LET j  == IdentEnd(s, i)
           id == SubSeq(s, i, j)
           tk == IF id = << "T", "r", "u", "e" >> THEN "True"
                 ELSE IF id = << "F", "a", "l", "s", "e" >> THEN "False"
                 ELSE IF id = << "a", "n", "d" >> THEN "and"
                 ELSE IF id = << "o", "r" >> THEN "or"
                 ELSE IF id = << "n", "o", "t" >> THEN "not"
                 ELSE "NAME"
       IN  << tk >> \o PyTokensFrom(s, j + 1)
  ELSE IF StartsAt(s, << "!", "=" >>, i) THEN << "!=" >> \o PyTokensFrom(s, i + 2)
  ELSE IF StartsAt(s, << "=", "=" >>, i) THEN << "==" >> \o PyTokensFrom(s, i + 2)
  ELSE IF s[i] \in Openers \cup Closers THEN << s[i] >> \o PyTokensFrom(s, i + 1)
  ELSE << "BAD" >> \o PyTokensFrom(s, i + 1)

\* result of parsing a phrase: ok (no syntax error so far), pos (next
\* token), val (its value when evaluated)
PR(ok, pos, val) == [ok |-> ok, pos |-> pos, val |-> val]
PyFail == PR(FALSE, 0, PyExc)

Tok(ts, i) == IF i <= Len(ts) THEN ts[i] ELSE "EOF"
CloserOf(c) == IF c = "(" THEN ")" ELSE IF c = "[" THEN "]" ELSE "}"

\* the value of the display  open v close  /  open close
DisplayValue(open, items) ==
  IF items = << >>
  THEN IF open = "(" THEN PyDisplay("tuple", << >>)
       ELSE IF open = "[" THEN PyDisplay("list", << >>)
       ELSE PyDisplay("dict", << >>)
  ELSE LET v == items[1] IN
       IF v.t = "exc" THEN PyExc
       ELSE IF open = "(" THEN v
       ELSE IF open = "[" THEN PyDisplay("list", << v >>)
       \* hash(v) succeeds: a bool, or the empty tuple
       ELSE IF v.t = "bool" \/ (v.t = "tuple" /\ v.e = << >>)
       THEN PyDisplay("set", << v >>)
       ELSE PyExc

RECURSIVE ParseOr(_, _), ParseOrRest(_, _), ParseAnd(_, _), ParseAndRest(_, _),
          ParseNot(_, _), ParseCmp(_, _), ParseCmpRest(_, _, _, _),
          ParsePrimary(_, _), ParseTrailers(_, _), ParseAtom(_, _)

\* the display  tk inner closer
ParseDisplay(ts, tk, inner) ==
  IF inner.ok /\ Tok(ts, inner.pos) = CloserOf(tk)
  THEN PR(TRUE, inner.pos + 1, DisplayValue(tk, << inner.val >>))
  ELSE PyFail

\* atom: name | True | False | ( [expr] ) | [ [expr] ] | { [expr] }
ParseAtom(ts, i) ==
  LET tk == Tok(ts, i) IN
  IF tk = "True" THEN PR(TRUE, i + 1, PyBool(TRUE))
  ELSE IF tk = "False" THEN PR(TRUE, i + 1, PyBool(FALSE))
  ELSE IF tk = "NAME" THEN PR(TRUE, i + 1, PyExc)
  ELSE IF tk \in Openers
  THEN IF Tok(ts, i + 1) = CloserOf(tk)
       THEN PR(TRUE, i + 2, DisplayValue(tk, << >>))
       ELSE ParseDisplay(ts, tk, ParseOr(ts, i + 1))
  ELSE PyFail

\* the trailer  open inner closer  applied to left: a call of a bool or of
\* a display raises TypeError, so does a subscript other than list[False]
ParseTrailer(ts, left, closer, inner) ==
  IF inner.ok /\ Tok(ts, inner.pos) = closer
  THEN ParseTrailers(ts, PR(TRUE, inner.pos + 1,
                            IF closer = ")" THEN PyExc
                            \* left[inner]
                            ELSE IF left.val.t = "exc" \/ inner.val.t = "exc"
                            THEN PyExc
                            ELSE IF /\ left.val.t = "list"
                                    /\ inner.val.t = "bool"
                                    /\ ~inner.val.b
                                    /\ left.val.e # << >>
                            THEN left.val.e[1]
                            ELSE PyExc))
  ELSE PyFail

\* trailers: call ( [expr] ) and subscript [ expr ]
ParseTrailers(ts, left) ==
  LET tk == Tok(ts, left.pos) IN
  IF tk = "(" /\ Tok(ts, left.pos + 1) = ")"
  THEN ParseTrailers(ts, PR(TRUE, left.pos + 2, PyExc))
  ELSE IF tk \in {"(", "["}
  THEN ParseTrailer(ts, left, CloserOf(tk), ParseOr(ts, left.pos + 1))
  ELSE left

\* the trailers of the atom a
ParsePrimaryOf(ts, a) == IF a.ok THEN ParseTrailers(ts, a) ELSE PyFail

ParsePrimary(ts, i) == ParsePrimaryOf(ts, ParseAtom(ts, i))

\* one comparison  prev tk r  of a chain whose value so far is acc (a bool,
\* or exc); r is evaluated only while the chain is still true
ParseCmpStep(ts, tk, prev, acc, r) ==
  IF ~r.ok THEN PyFail
  ELSE LET live == acc.t = "bool" /\ acc.b
           here == IF ~live THEN acc
                   ELSE IF r.val.t = "exc" THEN PyExc
                   ELSE PyBool(IF tk = "==" THEN prev = r.val
                                            ELSE prev # r.val)
       IN  ParseCmpRest(ts, r.pos, r.val, here)

\* the rest of a comparison chain; prev is the last operand, acc the value
\* of the chain so far
ParseCmpRest(ts, pos, prev, acc) ==
  IF Tok(ts, pos) \in {"==", "!="}
  THEN ParseCmpStep(ts, Tok(ts, pos), prev, acc, ParsePrimary(ts, pos + 1))
  ELSE PR(TRUE, pos, acc)

\* the comparison chain that starts with the operand l
ParseCmpOf(ts, l) ==
  IF ~l.ok THEN PyFail
  ELSE IF Tok(ts, l.pos) \in {"==", "!="}
  THEN ParseCmpRest(ts, l.pos, l.val,
                    IF l.val.t = "exc" THEN PyExc ELSE PyBool(TRUE))
  ELSE l

ParseCmp(ts, i) == ParseCmpOf(ts, ParsePrimary(ts, i))

\* not r
ParseNotOf(r) ==
  IF ~r.ok THEN PyFail
  ELSE PR(TRUE, r.pos,
          IF r.val.t = "exc" THEN PyExc ELSE PyBool(~Truthy(r.val)))

ParseNot(ts, i) ==
  IF Tok(ts, i) = "not" THEN ParseNotOf(ParseNot(ts, i + 1))
  ELSE ParseCmp(ts, i)

\* left and r: r's value only if left is true
ParseAndStep(ts, left, r) ==
  IF ~r.ok THEN PyFail
  ELSE ParseAndRest(ts,
         PR(TRUE, r.pos,
            IF left.val.t = "exc" THEN PyExc
            ELSE IF Truthy(left.val) THEN r.val ELSE left.val))

ParseAndRest(ts, left) ==
  IF Tok(ts, left.pos) = "and"
  THEN ParseAndStep(ts, left, ParseNot(ts, left.pos + 1))
  ELSE left

ParseAndOf(ts, l) == IF l.ok THEN ParseAndRest(ts, l) ELSE PyFail

ParseAnd(ts, i) == ParseAndOf(ts, ParseNot(ts, i))

\* left or r: r's value only if left is false
ParseOrStep(ts, left, r) ==
  IF ~r.ok THEN PyFail
  ELSE ParseOrRest(ts,
         PR(TRUE, r.pos,
            IF left.val.t = "exc" THEN PyExc
            ELSE IF Truthy(left.val) THEN left.val ELSE r.val))

ParseOrRest(ts, left) ==
  IF Tok(ts, left.pos) = "or"
  THEN ParseOrStep(ts, left, ParseAnd(ts, left.pos + 1))
  ELSE left

ParseOrOf(ts, l) == IF l.ok THEN ParseOrRest(ts, l) ELSE PyFail

ParseOr(ts, i) == ParseOrOf(ts, ParseAnd(ts, i))

\* the value of a parse that consumed all of ts
PyEvalResult(ts, r) == IF r.ok /\ r.pos = Len(ts) + 1 THEN r.val ELSE PyExc

PyEvalTokens(ts) == PyEvalResult(ts, ParseOr(ts, 1))

\* eval(source): the value, or exc for a SyntaxError or an exception raised
\* by the evaluation
PyEval(source) == PyEvalTokens(PyTokensFrom(source, 1))

(***************************************************************************)
(* SearchWorker._evaluate_formula                                          *)
(***************************************************************************)
\* what class SearchWorker defines, and what __init__ sets: the names that
\* self.<name> resolves to in a SearchWorker (QObject has none of the
\* methods of Finder)
SearchWorkerAttributes ==
  {"result_found", "search_finished", "progress_update",
   "search_params", "is_cancelled", "unique_matches",
   "run_search", "_get_files_to_search", "_is_valid_extension",
   "_search_file", "_evaluate_formula", "cancel"}

\* the outcome of a call: the value returned, or the exception raised
Returned(v)  == [raised |-> "", value |-> v]
Raised(exc)  == [raised |-> exc, value |-> PyBool(FALSE)]

\* phrase_values[letter]
PhraseValue(phrases, letter, content) ==
  LET phrase_text    == phrases[letter].text
      case_sensitive == phrases[letter].case_sensitive
  IN  IF Strip(phrase_text) # << >>
      THEN IF case_sensitive
           THEN Contains(content, phrase_text)
           ELSE Contains(Lower(content), Lower(phrase_text))
      ELSE FALSE

RECURSIVE SubstituteLetters(_, _, _, _)
\* the loop over 'ABCDEF' that replaces each letter by its value
SubstituteLetters(eval_formula, phrases, content, k) ==
  IF k > Len(Letters) THEN eval_formula
  ELSE SubstituteLetters(
         Replace(eval_formula, << Letters[k] >>,
                 \* str(phrase_values[letter])
                 IF PhraseValue(phrases, Letters[k], content)
                 THEN << "T", "r", "u", "e" >>
                 ELSE << "F", "a", "l", "s", "e" >>),
         phrases, content, k + 1)

_evaluate_formula(content, phrases, formula) ==
  IF Strip(formula) = << >>
  THEN Returned(PyBool(FALSE))
  ELSE IF "_normalize_operators" \notin SearchWorkerAttributes
  THEN Raised("'SearchWorker' object has no attribute '_normalize_operators'")
  ELSE LET normalized_formula == _normalize_operators(formula)
           \* the expression handed to eval(); re.sub(r'not \(([^)]+)\)',
           \* r'not (\1)') rewrites every match to itself
           eval_formula ==
             ApplyReplacements(
               SubstituteLetters(Upper(normalized_formula), phrases,
                                 content, 1),
               \* the replacements of the word operators, in program
               \* order
               << << W_AND,  << " ", "a", "n", "d", " " >> >>,
                  << W_OR,   << " ", "o", "r", " " >> >>,
                  << W_NOT,  << " ", "n", "o", "t", " " >> >>,
                  << W_NOR,  << " ", "n", "o", "t", " ", "(" >> >>,
                  << W_XOR,  << " ", "!", "=", " " >> >>,
                  << W_XNOR, << " ", "=", "=", " " >> >> >>, 1)
           v == PyEval(eval_formula)
       IN  IF v.t = "exc" THEN Returned(PyBool(FALSE)) ELSE Returned(v)

(***************************************************************************)
(* Finder._prepare_search_parameters                                       *)
(***************************************************************************)
\* the extensions of the file types checked by _setup_defaults (txt, md);
\* the custom-extension field is empty
DefaultExtensions ==
  << << ".", "t", "x", "t" >>, << ".", "m", "d" >> >>

_prepare_search_parameters ==
  [phrases         |-> [l \in LetterSet |->
                          [text           |-> Strip(phrase_inputs[l]),
                           case_sensitive |-> case_sensitive_checkboxes[l]]],
   search_mode     |-> IF rb_document THEN "document" ELSE "line",
   file_extensions |-> DefaultExtensions,
   formula         |-> Strip(formula_input),
   unique_mode     |-> cb_unique]

(***************************************************************************)
(* SearchWorker._get_files_to_search and _is_valid_extension               *)
(***************************************************************************)
_is_valid_extension(filename, extensions) ==
  IF extensions = << >> THEN TRUE
  ELSE \E k \in 1..Len(extensions) :
         \* filename.lower().endswith(ext.lower())
         LET name == Lower(filename)
             ext  == Lower(extensions[k])
         IN  Len(ext) <= Len(name)
             /\ StartsAt(name, ext, Len(name) - Len(ext) + 1)

RECURSIVE WalkFiles(_, _, _)
\* os.walk over the selected folder, keeping the files whose extension fits
WalkFiles(files, extensions, k) ==
  IF k > Len(files) THEN << >>
  ELSE (IF _is_valid_extension(files[k].path, extensions)
        THEN << files[k].path >> ELSE << >>)
       \o WalkFiles(files, extensions, k + 1)

_get_files_to_search(params) == WalkFiles(fs, params.file_extensions, 1)

\* the file a path names
FileOf(path) == fs[CHOOSE k \in 1..Len(fs) : fs[k].path = path]

(***************************************************************************)
(* SearchWorker._search_file                                               *)
(***************************************************************************)
\* a match tuple (content, line_number, is_unique)
Match(content, line_number, is_unique) ==
  [content |-> content, line_number |-> line_number, is_unique |-> is_unique]

\* the text f"Error reading file: {e}" for the exception text e
ErrorReadingFile(e) == << "Error reading file: ", e >>

RECURSIVE SplitLinesFrom(_, _, _)
SplitLinesFrom(content, start, k) ==
  IF k > Len(content)
  THEN IF start <= Len(content) THEN << SubSeq(content, start, Len(content)) >>
       ELSE << >>
  ELSE IF content[k] = "\n"
  THEN << SubSeq(content, start, k) >> \o SplitLinesFrom(content, k + 1, k + 1)
  ELSE SplitLinesFrom(content, start, k + 1)

RECURSIVE SearchLines(_, _, _, _, _, _)
\* the loop over enumerate(f, 1); line_num is the number of the next line.
\* An exception of _evaluate_formula leaves the loop and is caught by the
\* except clause of _search_file, which appends to the matches found so far.
SearchLines(file_path, lines, line_num, params, seen, found) ==
  IF line_num > Len(lines)
  THEN [matches |-> found, unique_matches |-> seen]
  ELSE LET line == lines[line_num]
           out  == _evaluate_formula(line, params.phrases, params.formula)
       IN  IF out.raised # ""
           THEN [matches |-> Append(found,
                                    Match(ErrorReadingFile(out.raised), 0, FALSE)),
                 unique_matches |-> seen]
           ELSE IF Truthy(out.value)
           THEN LET match_key == file_path \o << ":" >> \o Strip(line)
                    is_unique == match_key \notin seen
                IN  SearchLines(file_path, lines, line_num + 1, params,
                                seen \cup {match_key},
                                IF ~params.unique_mode \/ is_unique
                                THEN Append(found,
                                            Match(Strip(line), line_num, is_unique))
                                ELSE found)
           ELSE SearchLines(file_path, lines, line_num + 1, params, seen, found)

\* a _search_file that reports nothing for a file it cannot open
SearchFileSilentOnOpenError(file_path, params, seen) ==
  LET file == FileOf(file_path) IN
  IF ~file.readable
  THEN [matches |-> << >>, unique_matches |-> seen]
  ELSE IF params.search_mode = "document"
  THEN LET out == _evaluate_formula(file.content, params.phrases, params.formula)
       IN  [matches |-> IF out.raised # ""
                        THEN << Match(ErrorReadingFile(out.raised), 0, FALSE) >>
                        ELSE << >>,
            unique_matches |-> seen]
  ELSE SearchLines(file_path, SplitLinesFrom(file.content, 1, 1), 1, params, seen, << >>)

\* returns the matches and the new unique_matches
_search_file(file_path, params, seen) ==
  LET file == FileOf(file_path) IN
  IF ~file.readable
  THEN [matches |-> << Match(ErrorReadingFile("[Errno 13] Permission denied"), 0, FALSE) >>,
        unique_matches |-> seen]
  ELSE IF params.search_mode = "document"
  THEN LET content == file.content
           out == _evaluate_formula(content, params.phrases, params.formula)
       IN  IF out.raised # ""
           THEN [matches |-> << Match(ErrorReadingFile(out.raised), 0, FALSE) >>,
                 unique_matches |-> seen]
           ELSE IF Truthy(out.value)
           THEN LET is_unique == file_path \notin seen IN
                [matches |-> IF ~params.unique_mode \/ is_unique
                             THEN << Match(\* content[:200] + "..."
                                         SubSeq(content, 1,
                                                IF Len(content) < 200
                                                THEN Len(content) ELSE 200)
                                         \o << ".", ".", "." >>,
                                         0, is_unique) >>
                             ELSE << >>,
                 unique_matches |-> seen \cup {file_path}]
           ELSE [matches |-> << >>, unique_matches |-> seen]
  ELSE SearchLines(file_path, SplitLinesFrom(file.content, 1, 1), 1, params, seen, << >>)

(***************************************************************************)
(* Signals of the worker.                                                  *)
(***************************************************************************)
Sig(signal, file_path, content, line_number, is_unique, message, current, total) ==
  [signal |-> signal, file_path |-> file_path, content |-> content,
   line_number |-> line_number, is_unique |-> is_unique,
   message |-> message, current |-> current, total |-> total]

\* result_found.emit(file_path, line_content, line_number, is_unique)
ResultFound(file_path, match) ==
  Sig("result_found", file_path, match.content, match.line_number,
      match.is_unique, "", 0, 0)

\* search_finished.emit(message); the numbers are those formatted into it
SearchFinished(message, count, total) ==
  Sig("search_finished", << >>, << >>, 0, FALSE, message, count, total)

SearchComplete == "Search complete. Found {match_count} matches in {total_files} files."

(***************************************************************************)
(* SearchWorker.run_search, one action per step of its loops: cancel runs   *)
(* in the GUI thread and may come between any two of them.                 *)
(* _search_file catches every exception itself and _get_files_to_search    *)
(* raises none here, so the two except clauses of run_search are not       *)
(* entered.                                                                *)
(***************************************************************************)
\* lines 154-161: the worker thread has started and enters run_search
RunSearchBegin ==
  /\ pc = "ready"
  /\ LET files == _get_files_to_search(search_params) IN
       /\ files_to_search' = files
       /\ IF Len(files) = 0
          THEN /\ signals' = Append(signals, SearchFinished("No files found matching the criteria.", 0, 0))
               /\ pc' = "done"
               /\ UNCHANGED << match_count, file_index >>
          ELSE /\ match_count' = 0
               /\ file_index' = 0
               /\ pc' = "loop"
               /\ UNCHANGED signals
  /\ UNCHANGED << search_params, is_cancelled, unique_matches, matches,
                  match_index >>
  /\ UNCHANGED << finder_vars, form_vars, fs, eval_result >>

\* a loop head that returns without a signal when the run is cancelled
ForFileSilentWhenCancelled ==
  /\ pc = "loop"
  /\ LET total_files == Len(files_to_search) IN
       IF is_cancelled
       THEN pc' = "done" /\ UNCHANGED signals
       ELSE IF file_index >= total_files
       THEN /\ signals' = Append(signals,
                            SearchFinished(SearchComplete, match_count, total_files))
            /\ pc' = "done"
       ELSE /\ pc' = "file"
            /\ UNCHANGED signals
  /\ UNCHANGED << search_params, is_cancelled, unique_matches, files_to_search,
                  file_index, matches, match_index, match_count >>
  /\ UNCHANGED << finder_vars, form_vars, fs, eval_result >>

\* lines 163-165 and 181: the head of the loop over the files, with its
\* test of is_cancelled; the loop is left for the emit of line 181
ForFile ==
  /\ pc = "loop"
  /\ LET total_files == Len(files_to_search) IN
       IF file_index >= total_files \/ is_cancelled
       THEN /\ signals' = Append(signals,
                            SearchFinished(SearchComplete, match_count, total_files))
            /\ pc' = "done"
       ELSE /\ pc' = "file"
            /\ UNCHANGED signals
  /\ UNCHANGED << search_params, is_cancelled, unique_matches, files_to_search,
                  file_index, matches, match_index, match_count >>
  /\ UNCHANGED << finder_vars, form_vars, fs, eval_result >>

\* lines 167-170: the progress signal and the call of _search_file, which
\* opens and reads the file
SearchFile ==
  /\ pc = "file"
  /\ LET total_files == Len(files_to_search)
         file_path == files_to_search[file_index + 1]
         found == _search_file(file_path, search_params, unique_matches)
     IN  /\ signals' = Append(signals,
                         \* progress_update.emit(i + 1, total_files)
                         Sig("progress_update", << >>, << >>, 0, FALSE, "",
                             file_index + 1, total_files))
         /\ matches' = found.matches
         /\ unique_matches' = found.unique_matches
         /\ match_index' = 0
         /\ pc' = "matches"
  /\ UNCHANGED << search_params, is_cancelled, files_to_search, file_index,
                  match_count >>
  /\ UNCHANGED << finder_vars, form_vars, fs, eval_result >>

\* lines 171-173: the head of the loop over the matches of one file, with
\* its test of is_cancelled
ForMatch ==
  /\ pc = "matches"
  /\ IF match_index >= Len(matches) \/ is_cancelled
     THEN /\ file_index' = file_index + 1
          /\ pc' = "loop"
     ELSE /\ pc' = "emit"
          /\ UNCHANGED file_index
  /\ UNCHANGED << search_params, is_cancelled, unique_matches,
                  files_to_search, matches, match_index, match_count, signals >>
  /\ UNCHANGED << finder_vars, form_vars, fs, eval_result >>

\* a worker that names the files from the end of the list when it emits
EmitMatchNamingFilesBackwards ==
  /\ pc = "emit"
  /\ match_count' = match_count + 1
  /\ signals' = Append(signals,
                  ResultFound(files_to_search[Len(files_to_search) - file_index],
                              matches[match_index + 1]))
  /\ match_index' = match_index + 1
  /\ pc' = "matches"
  /\ UNCHANGED << search_params, is_cancelled, unique_matches,
                  files_to_search, file_index, matches >>
  /\ UNCHANGED << finder_vars, form_vars, fs, eval_result >>

\* lines 174-176: the match is counted and emitted
EmitMatch ==
  /\ pc = "emit"
  /\ match_count' = match_count + 1
  /\ signals' = Append(signals,
                  ResultFound(files_to_search[file_index + 1],
                              matches[match_index + 1]))
  /\ match_index' = match_index + 1
  /\ pc' = "matches"
  /\ UNCHANGED << search_params, is_cancelled, unique_matches,
                  files_to_search, file_index, matches >>
  /\ UNCHANGED << finder_vars, form_vars, fs, eval_result >>

\* SearchWorker.cancel, called from the GUI thread while the worker runs
cancel ==
  /\ pc \in {"ready", "loop", "file", "matches", "emit"}
  /\ ~is_cancelled
  /\ is_cancelled' = TRUE
  /\ UNCHANGED << search_params, unique_matches, pc, files_to_search,
                  file_index, matches, match_index, match_count, signals >>
  /\ UNCHANGED << finder_vars, form_vars, fs, eval_result >>

(***************************************************************************)
(* Finder._validate_search_parameters and Finder._start_search             *)
(***************************************************************************)
\* "ok", or the message box the check ends with.  The file types and the
\* search path keep the defaults of _setup_defaults, so the last two
\* checks pass.
\* a check of the search parameters that leaves out the formula
ValidateSearchParametersWithoutFormula ==
  IF \A l \in LetterSet : Strip(phrase_inputs[l]) = << >>
  THEN "NoPhrases"
  ELSE "ok"

_validate_search_parameters ==
  LET formula == Strip(formula_input) IN
  IF formula # << >> /\ ~_comprehensive_formula_validation(formula).is_valid
  THEN "InvalidFormula"
  ELSE IF \A l \in LetterSet : Strip(phrase_inputs[l]) = << >>
  THEN "NoPhrases"
  ELSE "ok"

\* a slot of the Search button that leaves the button enabled
StartSearchButtonStaysEnabled ==
  /\ dialog = "none"
  /\ btn_search_enabled
  /\ _validate_search_parameters = "ok"
  /\ search_params' = _prepare_search_parameters
  /\ is_cancelled' = FALSE
  /\ unique_matches' = {}
  /\ signals' = << >>
  /\ pc' = "ready"
  /\ UNCHANGED << dialog, validation_result, files_to_search, file_index,
                  matches, match_index, match_count, btn_search_enabled >>
  /\ UNCHANGED << formula_input, phrase_inputs, case_sensitive_checkboxes,
                  _last_auto_formula, rb_document, cb_unique, fs, eval_result >>

\* the slot of the Search button.  The button is disabled while a search
\* runs, so no thread is running when the slot is entered.
_start_search ==
  /\ dialog = "none"
  /\ btn_search_enabled
  /\ LET verdict == _validate_search_parameters IN
       IF verdict # "ok"
       THEN /\ dialog' = verdict
            /\ validation_result' =
                 IF verdict = "InvalidFormula"
                 THEN _comprehensive_formula_validation(Strip(formula_input))
                 ELSE NoResult
            /\ UNCHANGED << btn_search_enabled, worker_vars >>
       ELSE /\ search_params' = _prepare_search_parameters
            /\ is_cancelled' = FALSE
            /\ unique_matches' = {}
            /\ signals' = << >>
            /\ btn_search_enabled' = FALSE
            /\ pc' = "ready"
            /\ UNCHANGED << dialog, validation_result, files_to_search,
                            file_index, matches, match_index, match_count >>
  /\ UNCHANGED << formula_input, phrase_inputs, case_sensitive_checkboxes,
                  _last_auto_formula, rb_document, cb_unique, fs, eval_result >>

\* Finder._search_finished: the slot of search_finished
_search_finished ==
  /\ pc = "done"
  /\ ~btn_search_enabled
  /\ btn_search_enabled' = TRUE
  /\ UNCHANGED << rb_document, cb_unique >>
  /\ UNCHANGED << finder_vars, fs, worker_vars, eval_result >>

(***************************************************************************)
(* One call of SearchWorker._evaluate_formula on a content unit, with the  *)
(* parameters a worker gets from the form.                                 *)
(***************************************************************************)
NoCall == [called |-> FALSE, content |-> << >>, outcome |-> Returned(PyBool(FALSE))]

EvaluateContent(content) ==
  /\ dialog = "none"
  /\ LET params == _prepare_search_parameters IN
       eval_result' = [called  |-> TRUE,
                       content |-> content,
                       outcome |-> _evaluate_formula(content, params.phrases,
                                                     params.formula)]
  /\ UNCHANGED << finder_vars, form_vars, fs, worker_vars >>

(***************************************************************************)
(* The inputs of the model.                                                *)
(***************************************************************************)
T_cat == << "c", "a", "t" >>
T_dog == << "d", "o", "g" >>

\* the pieces a formula is typed from when the bracket check is examined
BracketPieces ==
  { << "(" >>, << ")" >>, << "[" >>, << "]" >>, << "{" >>, << "}" >>,
    << "A" >>, << " " >> \o W_AND \o << " " >> }

\* the words a formula is typed from when validation is examined
Words == { << "A" >>, << "B" >>, W_AND, W_OR, W_NOT, W_NOR, W_XOR, W_XNOR }

\* the words typed before a search
SearchWords == { << "A" >>, W_NOT, W_OR }

\* how many blank-separated words the formula field holds
WordCount ==
  IF formula_input = << >> THEN 0
  ELSE 1 + Cardinality({k \in 1..Len(formula_input) : formula_input[k] = " "})

\* the content units formulas are evaluated on
Contents ==
  { << >>,
    T_dog,
    T_cat \o << " " >> \o T_dog,
    << "T", "h", "e", " ", "C", "A", "T", " ", "s", "a", "t" >> }

\* the kinds of file under the search path
FileKinds ==
  { [ext |-> "txt", readable |-> TRUE,  content |-> T_cat \o << "\n" >> \o T_dog],
    [ext |-> "txt", readable |-> TRUE,  content |-> T_cat \o << "\n" >> \o T_cat],
    [ext |-> "txt", readable |-> FALSE, content |-> << >>],
    [ext |-> "log", readable |-> TRUE,  content |-> T_cat] }

\* the k-th file is named a.<ext>, b.<ext>, ...
MakeFile(kind, k) ==
  [path |-> << LowerChars[k] >>
            \o (IF kind.ext = "txt" THEN << ".", "t", "x", "t" >>
                ELSE << ".", "l", "o", "g" >>),
   readable |-> kind.readable, content |-> kind.content]

FileSystems ==
  UNION { { [k \in 1..n |-> MakeFile(ks[k], k)] : ks \in [1..n -> FileKinds] }
          : n \in 0..MaxFiles }

(***************************************************************************)
(* Initial states.                                                         *)
(***************************************************************************)
\* no worker exists yet: Finder.search_worker is None
WorkerInit ==
  /\ search_params =
       [phrases         |-> [l \in LetterSet |->
                               [text |-> << >>, case_sensitive |-> FALSE]],
        search_mode     |-> "line",
        file_extensions |-> DefaultExtensions,
        formula         |-> << >>,
        unique_mode     |-> FALSE]
  /\ is_cancelled = FALSE
  /\ unique_matches = {}
  /\ pc = "none"
  /\ files_to_search = << >>
  /\ file_index = 0
  /\ matches = << >>
  /\ match_index = 0
  /\ match_count = 0
  /\ signals = << >>

\* _setup_defaults: line mode, Unique off
FormInit ==
  /\ rb_document = FALSE
  /\ cb_unique = FALSE
  /\ btn_search_enabled = TRUE

\* the window after construction, over some files
Init ==
  /\ FinderInit /\ FormInit /\ WorkerInit
  /\ fs \in FileSystems
  /\ eval_result = NoCall

(***************************************************************************)
(* Spec: the form, the Search button and the worker.  The user fills in    *)
(* the form before the first search and then searches, any number of       *)
(* times.                                                                  *)
(***************************************************************************)
UserTypesSearchWord ==
  /\ pc = "none"
  /\ WordCount < MaxSearchWords
  /\ \E w \in SearchWords : TypeWord(w)

\* the user replaces the text of phrase field A; textChanged runs
\* _update_auto_formula
UserSetsPhrase ==
  \E text \in {<< >>, T_cat} :
    /\ pc = "none"
    /\ dialog = "none"
    /\ phrase_inputs["A"] # text
    /\ phrase_inputs' = [phrase_inputs EXCEPT !["A"] = text]
    /\ _update_auto_formula(phrase_inputs')
    /\ UNCHANGED << case_sensitive_checkboxes, validation_result, dialog >>
    /\ UNCHANGED << form_vars, fs, worker_vars, eval_result >>

\* the user selects the other search mode
UserTogglesMode ==
  /\ pc = "none"
  /\ dialog = "none"
  /\ rb_document' = ~rb_document
  /\ UNCHANGED << cb_unique, btn_search_enabled >>
  /\ UNCHANGED << finder_vars, fs, worker_vars, eval_result >>

\* the user toggles "Unique"
UserTogglesUnique ==
  /\ pc = "none"
  /\ dialog = "none"
  /\ cb_unique' = ~cb_unique
  /\ UNCHANGED << rb_document, btn_search_enabled >>
  /\ UNCHANGED << finder_vars, fs, worker_vars, eval_result >>

Next ==
  \/ UserTypesSearchWord
  \/ UserSetsPhrase
  \/ UserTogglesMode
  \/ UserTogglesUnique
  \/ _start_search
  \/ CloseDialog
  \/ RunSearchBegin
  \/ ForFile
  \/ SearchFile
  \/ ForMatch
  \/ EmitMatch
  \/ cancel
  \/ _search_finished

Spec == Init /\ [][Next]_vars

(***************************************************************************)
(* SpecBrackets: formulas typed from brackets and operands, validated.     *)
(***************************************************************************)
InitNoFiles ==
  /\ FinderInit /\ FormInit /\ WorkerInit
  /\ fs = << >>
  /\ eval_result = NoCall

UserTypesBracketPiece ==
  \* fewer than MaxBracketPieces pieces in the formula field
  /\ Len(FindAll(formula_input,
                 << << " " >> \o W_AND \o << " " >>,
                    << "(" >>, << ")" >>, << "[" >>, << "]" >>, << "{" >>,
                    << "}" >>, << "A" >> >>)) < MaxBracketPieces
  /\ \E piece \in BracketPieces : TypeFormula(piece)

NextBrackets ==
  \/ UserTypesBracketPiece
  \/ _validate_formula_on_demand
  \/ CloseDialog

SpecBrackets == InitNoFiles /\ [][NextBrackets]_vars

(***************************************************************************)
(* SpecValidate: formulas typed word by word, validated.                   *)
(***************************************************************************)
UserTypesWord ==
  /\ WordCount < MaxWords
  /\ \E w \in Words : TypeWord(w)

NextValidate ==
  \/ UserTypesWord
  \/ UserSetsPhrase
  \/ _validate_formula_on_demand
  \/ CloseDialog

SpecValidate == InitNoFiles /\ [][NextValidate]_vars

(***************************************************************************)
(* SpecSymbols: formulas typed character by character from operands and    *)
(* symbolic operators, validated (the token check and the structure check  *)
(* call _normalize_operators on the formula).                              *)
(***************************************************************************)
SymbolPieces ==
  { << "A" >>, << "B" >>, << "&" >>, << "|" >>, << "!" >>, << "~" >>, << "^" >> }

UserTypesSymbolPiece ==
  /\ Len(formula_input) < MaxSymbolPieces
  /\ \E piece \in SymbolPieces : TypeFormula(piece)

NextSymbols ==
  \/ UserTypesSymbolPiece
  \/ _validate_formula_on_demand
  \/ CloseDialog

SpecSymbols == InitNoFiles /\ [][NextSymbols]_vars

(***************************************************************************)
(* SpecWhitespace: formulas typed word by word with nothing, a blank or a  *)
(* tab before each word, validated and evaluated on a line.                *)
(***************************************************************************)
SpacedWords == << << "A" >>, W_OR, W_NOT >>
Separators  == { << >>, << " " >>, << "\t" >> }

\* the form with the phrase of A filled in and the formula field cleared
InitPhraseA ==
  /\ formula_input = << >>
  /\ phrase_inputs = [l \in LetterSet |-> IF l = "A" THEN T_cat ELSE << >>]
  /\ case_sensitive_checkboxes = [l \in LetterSet |-> FALSE]
  /\ _last_auto_formula = << "A" >>
  /\ validation_result = NoResult
  /\ dialog = "none"
  /\ FormInit /\ WorkerInit
  /\ fs = << >>
  /\ eval_result = NoCall

\* the formula is typed before it is searched with
UserTypesSpacedWord ==
  /\ ~eval_result.called
  /\ Len(FindAll(formula_input, SpacedWords)) < MaxSpacedWords
  /\ \E k \in 1..Len(SpacedWords), sep \in Separators :
       TypeFormula(sep \o SpacedWords[k])

\* _start_search starts a worker only for a formula that passes
\* _validate_search_parameters
WorkerEvaluatesLine ==
  /\ _validate_search_parameters = "ok"
  /\ EvaluateContent(T_cat)

NextWhitespace ==
  \/ UserTypesSpacedWord
  \/ _validate_formula_on_demand
  \/ CloseDialog
  \/ WorkerEvaluatesLine

SpecWhitespace == InitPhraseA /\ [][NextWhitespace]_vars

(***************************************************************************)
(* SpecEvaluate: the formula engine on a formula and phrases taken from    *)
(* bounded sets: the form holds them, the Validate button validates the    *)
(* formula and a worker evaluates it on a content unit.                    *)
(***************************************************************************)
EvalLetters == {"A", "B"}
BinaryWords == {W_AND, W_OR, W_NOR, W_XOR, W_XNOR}

\* "X", "NOT X", "X op Y", "X op NOT X"
FSingle(x)        == << x >>
FNot(x)           == W_NOT \o << " ", x >>
FBinary(x, op, y) == << x, " " >> \o op \o << " ", y >>
FOpNot(x, op)     == << x, " " >> \o op \o << " " >> \o W_NOT \o << " ", x >>

EngineFormulas ==
  {FSingle(x) : x \in EvalLetters}
  \cup {FNot(x) : x \in EvalLetters}
  \cup {FBinary(x, op, y) : x \in EvalLetters, op \in BinaryWords, y \in EvalLetters}
  \cup {FOpNot(x, op) : x \in EvalLetters, op \in {W_AND, W_OR}}

InitEvaluate ==
  /\ formula_input \in EngineFormulas
  /\ \E a \in {<< >>, T_cat}, b \in {<< >>, T_dog} :
       phrase_inputs = [l \in LetterSet |->
                          IF l = "A" THEN a ELSE IF l = "B" THEN b ELSE << >>]
  /\ \E ca \in BOOLEAN :
       case_sensitive_checkboxes = [l \in LetterSet |-> l = "A" /\ ca]
  /\ _last_auto_formula = << >>
  /\ validation_result = NoResult
  /\ dialog = "none"
  /\ FormInit /\ WorkerInit
  /\ fs = << >>
  /\ eval_result = NoCall

WorkerEvaluates == \E content \in Contents : EvaluateContent(content)

NextEvaluate ==
  \/ WorkerEvaluates
  \/ _validate_formula_on_demand
  \/ CloseDialog

SpecEvaluate == InitEvaluate /\ [][NextEvaluate]_vars

(***************************************************************************)
(* SpecGrouping: the formula engine on formulas with one grouping, of each *)
(* of the three kinds.                                                     *)
(***************************************************************************)
\* "<NOT A>", "<A> OR B", "NOT <A OR B>" with the grouping symbols of a kind
GroupedFormulasOf(open) ==
  { << open >> \o FNot("A") \o << pairs(open) >>,
    << open, "A", pairs(open), " " >> \o W_OR \o << " ", "B" >>,
    W_NOT \o << " ", open >> \o FBinary("A", W_OR, "B") \o << pairs(open) >> }

GroupedFormulas == UNION { GroupedFormulasOf(open) : open \in Openers }

InitGrouping ==
  /\ formula_input \in GroupedFormulas
  /\ \E a \in {<< >>, T_cat}, b \in {<< >>, T_dog} :
       phrase_inputs = [l \in LetterSet |->
                          IF l = "A" THEN a ELSE IF l = "B" THEN b ELSE << >>]
  /\ case_sensitive_checkboxes = [l \in LetterSet |-> FALSE]
  /\ _last_auto_formula = << >>
  /\ validation_result = NoResult
  /\ dialog = "none"
  /\ FormInit /\ WorkerInit
  /\ fs = << >>
  /\ eval_result = NoCall

NextGrouping ==
  \/ WorkerEvaluates
  \/ _validate_formula_on_demand
  \/ CloseDialog

SpecGrouping == InitGrouping /\ [][NextGrouping]_vars

(***************************************************************************)
(* SpecMalformed: the formula engine on formulas that pass validation,     *)
(* some of them malformed: an operand directly followed by NOT.            *)
(***************************************************************************)
\* "X NOT Y": NOT takes one operand, so nothing joins X and NOT Y
FMalformed(x, y) == << x, " " >> \o W_NOT \o << " ", y >>

MalformedFormulas == { FMalformed(x, y) : x \in EvalLetters, y \in EvalLetters }

InitMalformed ==
  /\ formula_input \in MalformedFormulas \cup {FSingle(x) : x \in EvalLetters}
  /\ \E a \in {<< >>, T_cat}, b \in {<< >>, T_dog} :
       phrase_inputs = [l \in LetterSet |->
                          IF l = "A" THEN a ELSE IF l = "B" THEN b ELSE << >>]
  /\ case_sensitive_checkboxes = [l \in LetterSet |-> FALSE]
  /\ _last_auto_formula = << >>
  /\ validation_result = NoResult
  /\ dialog = "none"
  /\ FormInit /\ WorkerInit
  /\ fs = << >>
  /\ eval_result = NoCall

\* the worker evaluates a formula that _validate_search_parameters let pass
WorkerEvaluatesValidated ==
  /\ _validate_search_parameters = "ok"
  /\ WorkerEvaluates

NextMalformed ==
  \/ WorkerEvaluatesValidated
  \/ _validate_formula_on_demand
  \/ CloseDialog

SpecMalformed == InitMalformed /\ [][NextMalformed]_vars

(***************************************************************************)
(* Notions the properties are stated with.                                 *)
(***************************************************************************)
\* the presence flag of a phrase: its text is not empty and occurs in the
\* content, compared exactly when Match Case is checked, case-folded
\* otherwise
Present(letter, content) ==
  LET text == phrase_inputs[letter] IN
  /\ text # << >>
  /\ \E k \in 1..Len(content) :
       /\ k + Len(text) - 1 <= Len(content)
       /\ \A j \in 1..Len(text) :
            IF case_sensitive_checkboxes[letter]
            THEN content[k + j - 1] = text[j]
            ELSE LowerChar(content[k + j - 1]) = LowerChar(text[j])

\* the call of _evaluate_formula returned the boolean b
EvaluateReturned(b) ==
  /\ eval_result.outcome.raised = ""
  /\ eval_result.outcome.value = PyBool(b)

\* a message box of _validate_formula_on_demand shows the result for the
\* formula in the field
Validated == dialog \in {"Success", "Warnings", "Errors"}

HasMessage(msgs, kind, t1) ==
  \E k \in 1..Len(msgs) : msgs[k].kind = kind /\ msgs[k].t1 = t1

\* what the formula of the running search is meant to yield on a content
\* unit, for the formulas a search can be started with here: "A", "NOT A"
\* (a blank formula yields false)
PresentIn(phrases, letter, content) ==
  LET text == phrases[letter].text IN
  /\ text # << >>
  /\ \E k \in 1..Len(content) :
       /\ k + Len(text) - 1 <= Len(content)
       /\ \A j \in 1..Len(text) :
            IF phrases[letter].case_sensitive
            THEN content[k + j - 1] = text[j]
            ELSE LowerChar(content[k + j - 1]) = LowerChar(text[j])

Satisfies(params, content) ==
  IF params.formula = FSingle("A") THEN PresentIn(params.phrases, "A", content)
  ELSE IF params.formula = FNot("A") THEN ~PresentIn(params.phrases, "A", content)
  ELSE FALSE

RECURSIVE SatisfyingLines(_, _, _)
\* the 1-based numbers of the lines that satisfy the formula
SatisfyingLines(params, lines, k) ==
  IF k > Len(lines) THEN << >>
  ELSE (IF Satisfies(params, lines[k]) THEN << k >> ELSE << >>)
       \o SatisfyingLines(params, lines, k + 1)

\* the positions one MatchResult each is due at, for a file
ExpectedPositions(params, file) ==
  IF params.search_mode = "line"
  THEN SatisfyingLines(params, SplitLinesFrom(file.content, 1, 1), 1)
  ELSE IF Satisfies(params, file.content) THEN << 0 >> ELSE << >>

RECURSIVE PositionsOf(_, _, _)
\* the positions of the results emitted for a file, in emission order
PositionsOf(sigs, path, k) ==
  IF k > Len(sigs) THEN << >>
  ELSE (IF sigs[k].signal = "result_found" /\ sigs[k].file_path = path
        THEN << sigs[k].line_number >> ELSE << >>)
       \o PositionsOf(sigs, path, k + 1)

(***************************************************************************)
(* Properties.                                                             *)
(***************************************************************************)

\* C1: in a search run over a readable file, line mode emits exactly one
\* result for each line on which the formula evaluates true, at that line's
\* 1-based number, and document mode emits exactly one result at position 0
\* for a file whose whole content satisfies the formula.
C1_OneResultPerSatisfyingUnit ==
  (pc = "done" /\ ~is_cancelled /\ search_params.formula # << >>)
  => \A k \in 1..Len(files_to_search) :
       LET file == FileOf(files_to_search[k]) IN
       file.readable
       => PositionsOf(signals, file.path, 1)
            = ExpectedPositions(search_params, file)

\* C2: for a formula that is a single phrase letter X, Evaluate returns true
\* iff phrase X has text and the text occurs in the content (exactly when
\* case sensitive, case-folded otherwise); for an unset phrase it returns
\* false on every content.
C2_SingleLetterIsPresence ==
  \A x \in EvalLetters :
    (eval_result.called /\ formula_input = FSingle(x))
    => EvaluateReturned(Present(x, eval_result.content))

\* C3: Evaluate of "X AND Y" returns the conjunction of the presence flags
\* of X and Y.
C3_AndIsConjunction ==
  \A x \in EvalLetters, y \in EvalLetters :
    (eval_result.called /\ formula_input = FBinary(x, W_AND, y))
    => EvaluateReturned(Present(x, eval_result.content)
                        /\ Present(y, eval_result.content))

\* C4: Evaluate of "X OR Y" returns the disjunction of the presence flags of
\* X and Y, and Evaluate of "NOT X" returns the negation of the presence
\* flag of X.
C4_OrIsDisjunctionNotIsNegation ==
  /\ \A x \in EvalLetters, y \in EvalLetters :
       (eval_result.called /\ formula_input = FBinary(x, W_OR, y))
       => EvaluateReturned(Present(x, eval_result.content)
                           \/ Present(y, eval_result.content))
  /\ \A x \in EvalLetters :
       (eval_result.called /\ formula_input = FNot(x))
       => EvaluateReturned(~Present(x, eval_result.content))

\* C5: Evaluate of "X XOR Y" returns true iff the two presence flags differ,
\* of "X XNOR Y" iff they are equal, of "X NOR Y" iff both are false.
C5_XorXnorNor ==
  \A x \in EvalLetters, y \in EvalLetters :
    LET px == Present(x, eval_result.content)
        py == Present(y, eval_result.content)
    IN  eval_result.called
        => /\ formula_input = FBinary(x, W_XOR, y) => EvaluateReturned(px # py)
           /\ formula_input = FBinary(x, W_XNOR, y) => EvaluateReturned(px = py)
           /\ formula_input = FBinary(x, W_NOR, y) => EvaluateReturned(~px /\ ~py)

\* C6: for every letter X whose phrase is set, Validate of "X OR NOT X" is
\* valid and carries a tautology warning, and Evaluate of it returns true on
\* every content.
C6_TautologyValidAndTrue ==
  \A x \in EvalLetters :
    (phrase_inputs[x] # << >> /\ formula_input = FOpNot(x, W_OR))
    => /\ Validated
          => /\ validation_result.is_valid
             /\ HasMessage(validation_result.warnings, "Tautology", << x >>)
       /\ eval_result.called => EvaluateReturned(TRUE)

\* C7: for every letter X whose phrase is set, Validate of "X AND NOT X" is
\* valid (no errors) and carries a contradiction warning, and Evaluate of it
\* returns false on every content.
C7_ContradictionValidAndFalse ==
  \A x \in EvalLetters :
    (phrase_inputs[x] # << >> /\ formula_input = FOpNot(x, W_AND))
    => /\ Validated
          => /\ validation_result.is_valid
             /\ validation_result.errors = << >>
             /\ HasMessage(validation_result.warnings, "Paradox", << x >>)
       /\ eval_result.called => EvaluateReturned(FALSE)

\* the formula the validation was given
ValidatedFormula == Strip(formula_input)

\* the brackets of a text, in order
BracketsOnly(text) == SelectSeq(text, LAMBDA c : c \in Openers \cup Closers)

RECURSIVE CancelPairs(_)
\* cancels adjacent pairs "()", "[]", "{}" until none is left
CancelPairs(bs) ==
  IF \E k \in 1..(Len(bs) - 1) : bs[k] \in Openers /\ bs[k + 1] = pairs(bs[k])
  THEN LET k == CHOOSE j \in 1..(Len(bs) - 1) :
                  bs[j] \in Openers /\ bs[j + 1] = pairs(bs[j])
       IN  CancelPairs(SubSeq(bs, 1, k - 1) \o SubSeq(bs, k + 2, Len(bs)))
  ELSE bs

\* every bracket is closed by a closer of its own kind, properly nested
ProperlyNested(text) == CancelPairs(BracketsOnly(text)) = << >>

\* openers minus closers within text[a..b]
Depth(text, a, b) ==
  Cardinality({k \in a..b : text[k] \in Openers})
  - Cardinality({k \in a..b : text[k] \in Closers})

\* the opener at i and the closer at j enclose a stretch in which every
\* bracket has its partner: j is the closer that closes i, whatever its kind
Encloses(text, i, j) ==
  /\ i < j
  /\ text[i] \in Openers
  /\ text[j] \in Closers
  /\ Depth(text, i + 1, j - 1) = 0
  /\ \A k \in (i + 1)..(j - 1) : Depth(text, i + 1, k) >= 0

\* the errors the bracket check owes: one per closer of the wrong kind, one
\* per closer that closes nothing, one per opener never closed, each with
\* its 1-based position
OwedBracketErrors(text) ==
  LET pos == 1..Len(text) IN
  { Msg("Mismatched", << text[a] >>, << text[b] >>, a, b) :
      <<a, b>> \in { q \in pos \X pos : /\ Encloses(text, q[1], q[2])
                                         /\ pairs(text[q[1]]) # text[q[2]] } }
  \cup
  { Msg("UnmatchedClosing", << text[b] >>, << >>, b, 0) :
      b \in { q \in pos : /\ text[q] \in Closers
                          /\ ~\E a \in pos : Encloses(text, a, q) } }
  \cup
  { Msg("Unclosed", << text[a] >>, << >>, a, 0) :
      a \in { q \in pos : /\ text[q] \in Openers
                          /\ ~\E b \in pos : Encloses(text, q, b) } }

\* the errors of the bracket check among the errors of a validation
BracketErrors(errors) ==
  SelectSeq(errors,
            LAMBDA e : e.kind \in {"Mismatched", "UnmatchedClosing", "Unclosed"})

\* the text is a run of valid tokens (letters A-F, word operators, grouping
\* symbols) and blanks
ValidTokens ==
  { << "A" >>, << "B" >>, << "C" >>, << "D" >>, << "E" >>, << "F" >>,
    W_AND, W_OR, W_NOT, W_NOR, W_XOR, W_XNOR,
    << "(" >>, << ")" >>, << "[" >>, << "]" >>, << "{" >>, << "}" >> }

RECURSIVE OnlyValidTokensFrom(_, _)
OnlyValidTokensFrom(text, k) ==
  \/ k > Len(text)
  \/ k <= Len(text) /\ text[k] = " " /\ OnlyValidTokensFrom(text, k + 1)
  \/ \E tok \in ValidTokens :
       StartsAt(text, tok, k) /\ OnlyValidTokensFrom(text, k + Len(tok))

OnlyValidTokens(text) == OnlyValidTokensFrom(text, 1)

\* the first blank-separated word of the text is w
FirstWordIs(text, w) == text = w \/ StartsAt(text, w \o << " " >>, 1)

A_AND_closer == << "A", " " >> \o W_AND \o << " ", ")" >>

\* C8: every formula whose brackets are balanced and which consists only of
\* valid tokens is valid.
C8_BalancedValidTokensAreValid ==
  (Validated /\ ProperlyNested(ValidatedFormula) /\ OnlyValidTokens(ValidatedFormula))
  => validation_result.is_valid

\* C9: a formula whose first token is a binary operator is invalid, and the
\* validation reports for that operator that it lacks a left operand.
C9_LeadingBinaryOperatorReported ==
  \A op \in BinaryWords :
    (Validated /\ FirstWordIs(ValidatedFormula, op))
    => /\ ~validation_result.is_valid
       /\ HasMessage(validation_result.errors, "NeedsLeftOperand", op)

\* C10: the bracket check reports no error iff every bracket is closed by a
\* closer of its own kind in properly nested order; each closer that closes
\* nothing, each closer of the wrong kind and each opener left open yields
\* exactly one error with its 1-based character position, and a formula
\* with a bracket error is invalid ("A AND )": one bracket error, invalid).
C10_BracketErrorsExact ==
  Validated
  => LET reported == BracketErrors(validation_result.errors) IN
     /\ reported = << >> <=> ProperlyNested(ValidatedFormula)
     /\ {reported[k] : k \in 1..Len(reported)} = OwedBracketErrors(ValidatedFormula)
     /\ Len(reported) = Cardinality(OwedBracketErrors(ValidatedFormula))
     /\ reported # << >> => ~validation_result.is_valid
     /\ ValidatedFormula = A_AND_closer
        => reported = << Msg("UnmatchedClosing", << ")" >>, << >>, 7, 0) >>

\* C10 witness: the validation of "A AND )" is shown with its one bracket
\* error
C10_Witness ==
  /\ dialog = "Errors"
  /\ ValidatedFormula = A_AND_closer
  /\ Len(BracketErrors(validation_result.errors)) = 1

(***************************************************************************)
(* Normalize.                                                              *)
(***************************************************************************)
\* the symbolic operators, longest first, and the word each stands for
SymbolWords ==
  << << << "&", "&" >>, W_AND >>, << << "&" >>, W_AND >>,
     << << "|", "|" >>, W_OR >>,  << << "|" >>, W_OR >>,
     << << "!" >>, W_NOT >>, << << "~" >>, W_NOT >>, << << "^" >>, W_XOR >> >>

WordOfSymbol(sym) ==
  SymbolWords[CHOOSE k \in 1..Len(SymbolWords) : SymbolWords[k][1] = sym][2]

\* the word operators owed to a formula written with operands and symbolic
\* operators only: one per symbol occurrence, the longest symbol first
OwedOperatorWords(text) ==
  LET syms == FindAll(text, [k \in 1..Len(SymbolWords) |-> SymbolWords[k][1]])
  IN  [k \in 1..Len(syms) |-> WordOfSymbol(syms[k])]

\* the word operators of a normalized text, in order
OperatorWords(text) == FindAll(text, << W_AND, W_XOR, W_OR, W_NOT >>)

A_andand_B == << "A", "&", "&", "B" >>
A_and_B    == << "A", "&", "B" >>

\* C11: Normalize turns each symbolic operator occurrence into exactly one
\* word operator, the longest symbol first: "&&" and "&" into one AND, "||"
\* and "|" into one OR, "!" and "~" into NOT, "^" into XOR; "A&&B" and "A&B"
\* normalize to the same operator sequence.
C11_EachSymbolOneWord ==
  Validated
  => /\ OperatorWords(_normalize_operators(ValidatedFormula))
          = OwedOperatorWords(ValidatedFormula)
     /\ ValidatedFormula = A_andand_B
        => OperatorWords(_normalize_operators(ValidatedFormula))
             = OperatorWords(_normalize_operators(A_and_B))

\* a symbolic operator of Normalize occurs in the text
HasSymbol(text) == \E k \in 1..Len(text) : text[k] \in {"&", "|", "!", "~", "^"}

\* C12: Normalize is idempotent: normalizing a normalized formula changes
\* nothing.
C12_NormalizeIdempotent ==
  Validated
  => _normalize_operators(_normalize_operators(ValidatedFormula))
       = _normalize_operators(ValidatedFormula)

\* C12 witness: a formula with symbolic operators has been validated, and
\* normalizing it changed it
C12_Witness ==
  /\ Validated
  /\ HasSymbol(ValidatedFormula)
  /\ Len(ValidatedFormula) = MaxSymbolPieces
  /\ _normalize_operators(ValidatedFormula) # ValidatedFormula

\* the formula written with word operators instead of symbolic ones, the
\* tokens separated by one blank ("A|!A" is "A OR NOT A")
WordEquivalent(text) ==
  LET syms   == [k \in 1..Len(SymbolWords) |-> SymbolWords[k][1]]
      tokens == FindAll(text, syms \o << << "A" >>, << "B" >> >>)
  IN  JoinWith([k \in 1..Len(tokens) |->
                  IF \E j \in 1..Len(syms) : syms[j] = tokens[k]
                  THEN WordOfSymbol(tokens[k]) ELSE tokens[k]],
               << " " >>)

\* C13: every validation check works on the normalized form, so a formula
\* written with symbolic operators gets the same validity, the same errors
\* and the same warnings as the same formula written with word operators
\* ("A|!A" as "A OR NOT A", "A||B" as "A OR B").
C13_AliasesValidateAlike ==
  Validated
  => validation_result
       = _comprehensive_formula_validation(WordEquivalent(ValidatedFormula))

(***************************************************************************)
(* Whitespace.                                                             *)
(***************************************************************************)
\* the same tokens separated by one blank
SingleSpaced(text) == JoinWith(FindAll(text, SpacedWords), << " " >>)

\* C14: whitespace between tokens is insignificant: a formula gets the same
\* validity, errors and warnings from Validate, and the same result from
\* Evaluate, as the same tokens separated by single blanks, whatever blanks
\* or tabs are put or left out between them.
C14_WhitespaceInsignificant ==
  /\ Validated
     => validation_result
          = _comprehensive_formula_validation(SingleSpaced(ValidatedFormula))
  /\ eval_result.called
     => eval_result.outcome
          = _evaluate_formula(eval_result.content,
                              _prepare_search_parameters.phrases,
                              SingleSpaced(Strip(formula_input)))

(***************************************************************************)
(* Grouping.                                                               *)
(***************************************************************************)
\* the formula with every grouping symbol replaced by the round one
WithParentheses(text) ==
  [k \in 1..Len(text) |->
     IF text[k] \in Openers THEN "("
     ELSE IF text[k] \in Closers THEN ")" ELSE text[k]]

\* C15: the three grouping kinds mean the same: a formula grouped with
\* brackets or braces evaluates to the same result as the formula grouped
\* with parentheses, and that result is always a single boolean.
C15_GroupingKindsEvaluateAlike ==
  eval_result.called
  => /\ eval_result.outcome.raised = ""
     /\ eval_result.outcome.value.t = "bool"
     /\ eval_result.outcome
          = _evaluate_formula(eval_result.content,
                              _prepare_search_parameters.phrases,
                              WithParentheses(Strip(formula_input)))

(***************************************************************************)
(* Evaluation failures.                                                    *)
(***************************************************************************)
\* what the caller of Evaluate gets for a formula that is legitimately
\* false: the single letter of a phrase that is not in the content
LegitimatelyFalse(letter) ==
  _evaluate_formula(<< >>, _prepare_search_parameters.phrases, << letter >>)

\* C16: when the evaluation of a malformed formula that passed validation
\* fails, the caller of Evaluate gets something it can tell from a formula
\* that is legitimately false: the failure is not turned into the outcome
\* of "no match".
C16_FailureDistinguishable ==
  (eval_result.called /\ Strip(formula_input) \in MalformedFormulas)
  => \A letter \in EvalLetters :
       eval_result.outcome # LegitimatelyFalse(letter)

(***************************************************************************)
(* SpecPhrases: the user edits the phrases of A and B, types a formula,    *)
(* resets the form, validates and presses Search.                          *)
(***************************************************************************)
\* the user replaces the text of a phrase field; textChanged runs
\* _update_auto_formula
UserEditsPhrase ==
  \E letter \in {"A", "B"}, text \in {<< >>, T_cat} :
    /\ pc = "none"
    /\ dialog = "none"
    /\ phrase_inputs[letter] # text
    /\ phrase_inputs' = [phrase_inputs EXCEPT ![letter] = text]
    /\ _update_auto_formula(phrase_inputs')
    /\ UNCHANGED << case_sensitive_checkboxes, validation_result, dialog >>
    /\ UNCHANGED << form_vars, fs, worker_vars, eval_result >>

UserTypesOperandWord ==
  /\ pc = "none"
  /\ WordCount < MaxOperandWords
  /\ \E w \in SearchWords \cup {<< "B" >>} : TypeWord(w)

\* Finder._reset_form: the slot of the Reset/Clear button.  Clearing the
\* phrase fields runs _update_auto_formula for each of them; the formula
\* field and _last_auto_formula are cleared after that in any case.
_reset_form ==
  /\ pc = "none"
  /\ dialog = "none"
  /\ phrase_inputs' = [l \in LetterSet |-> << >>]
  /\ case_sensitive_checkboxes' = [l \in LetterSet |-> FALSE]
  /\ rb_document' = FALSE
  /\ formula_input' = << >>
  /\ _last_auto_formula' = << >>
  /\ cb_unique' = FALSE
  /\ signals' = << >>
  /\ UNCHANGED << validation_result, dialog, btn_search_enabled, fs,
                  search_params, is_cancelled, unique_matches, pc,
                  files_to_search, file_index, matches, match_index,
                  match_count, eval_result >>

NextPhrases ==
  \/ UserEditsPhrase
  \/ UserTypesOperandWord
  \/ _reset_form
  \/ _validate_formula_on_demand
  \/ CloseDialog
  \/ _start_search

SpecPhrases == InitNoFiles /\ [][NextPhrases]_vars

(***************************************************************************)
(* SpecRuns: searches with the formula "A" the form constructs itself once *)
(* the phrase of A is filled in, over the files of the search path.        *)
(***************************************************************************)
\* the form after the user filled in the phrase of A: _update_auto_formula
\* has put "A" into the formula field
InitRuns ==
  /\ formula_input = << "A" >>
  /\ phrase_inputs = [l \in LetterSet |-> IF l = "A" THEN T_cat ELSE << >>]
  /\ case_sensitive_checkboxes = [l \in LetterSet |-> FALSE]
  /\ _last_auto_formula = << "A" >>
  /\ validation_result = NoResult
  /\ dialog = "none"
  /\ FormInit /\ WorkerInit
  /\ fs \in FileSystems
  /\ eval_result = NoCall

NextRuns ==
  \/ UserTogglesMode
  \/ UserTogglesUnique
  \/ _start_search
  \/ RunSearchBegin
  \/ ForFile
  \/ SearchFile
  \/ ForMatch
  \/ EmitMatch
  \/ cancel
  \/ _search_finished

SpecRuns == InitRuns /\ [][NextRuns]_vars

\* the worker thread is scheduled: run_search takes its next step
WorkerStep == RunSearchBegin \/ ForFile \/ SearchFile \/ ForMatch \/ EmitMatch

SpecRunsFair == SpecRuns /\ WF_vars(WorkerStep)

(***************************************************************************)
(* Search runs: cancellation, order, first occurrences.                    *)
(***************************************************************************)
\* the last signal the worker emitted
LastSignal == signals[Len(signals)]

\* C17: a run in which cancellation was requested before the last file was
\* processed ends with a terminal status that says the run was cancelled,
\* not with the one that says the search is complete.
C17_CancelledRunSaysCancelled ==
  (pc = "done" /\ is_cancelled /\ file_index < Len(files_to_search))
  => ~(LastSignal.signal = "search_finished"
       /\ LastSignal.message = SearchComplete)

\* the step appends a result_found signal
EmitsResult ==
  /\ Len(signals') = Len(signals) + 1
  /\ signals'[Len(signals')].signal = "result_found"

\* the step goes on to open the next file
OpensNextFile == pc = "loop" /\ pc' = "file"

\* C18: once the cancellation flag is set, the run emits no further
\* result_found and opens no file after the one being processed, wherever
\* cancel() comes between the steps of the worker.
C18_NothingAfterCancel ==
  [][is_cancelled => (~EmitsResult /\ ~OpensNextFile)]_vars

\* the results of the run, in emission order
Results == SelectSeq(signals, LAMBDA sig : sig.signal = "result_found")

\* the place of a path in the enumerated list of files
FileNumber(path) ==
  CHOOSE k \in 1..Len(files_to_search) : files_to_search[k] = path

\* C19: within one run results are emitted in file-enumeration order and,
\* within a file, in increasing line order: of two results the earlier one
\* is of an earlier file of the list, or of the same file and a smaller
\* line number.
C19_ResultsInOrder ==
  \A k \in 1..Len(Results), l \in 1..Len(Results) :
    k < l
    => \/ FileNumber(Results[k].file_path) < FileNumber(Results[l].file_path)
       \/ /\ Results[k].file_path = Results[l].file_path
          /\ Results[k].line_number < Results[l].line_number

\* C19 witness: a finished run that emitted results for two files
C19_Witness ==
  /\ pc = "done"
  /\ Len(Results) >= 2
  /\ Results[1].file_path # Results[2].file_path

\* C20: a result of a readable file is flagged as first occurrence iff no
\* earlier result of the run had the same file and the same content (line
\* mode) or the same file (document mode); the seen-set starts empty for
\* each run.
C20_FirstOccurrenceFlag ==
  /\ pc = "ready" => unique_matches = {}
  /\ \A l \in 1..Len(Results) :
       FileOf(Results[l].file_path).readable
       => (Results[l].is_unique
           <=> ~\E k \in 1..(l - 1) :
                  /\ Results[k].file_path = Results[l].file_path
                  /\ \/ search_params.search_mode = "document"
                     \/ Results[k].content = Results[l].content)

\* the results of the run for one file, in emission order
ResultsOf(path) == SelectSeq(Results, LAMBDA r : r.file_path = path)

\* the run went through all its files without being cancelled
RanToEnd == pc = "done" /\ ~is_cancelled

\* C21: in line mode with formula "A", for two lines of a file that both
\* contain the text of phrase A, the first is reported as first occurrence
\* and the second is not; in unique mode only the first is emitted.
C21_SecondLineIsRepeat ==
  (RanToEnd /\ search_params.search_mode = "line"
            /\ search_params.formula = << "A" >>)
  => \A k \in 1..Len(files_to_search) :
       LET file  == FileOf(files_to_search[k])
           lines == SplitLinesFrom(file.content, 1, 1)
           res   == ResultsOf(file.path)
           text  == search_params.phrases["A"].text
       IN  (/\ file.readable
            /\ Len(lines) = 2
            /\ Contains(Lower(lines[1]), Lower(text))
            /\ Contains(Lower(lines[2]), Lower(text)))
           => /\ Len(res) >= 1
              /\ res[1].line_number = 1
              /\ res[1].is_unique
              /\ IF search_params.unique_mode
                 THEN Len(res) = 1
                 ELSE /\ Len(res) = 2
                      /\ res[2].line_number = 2
                      /\ ~res[2].is_unique

\* the file numbers the run reported progress for
ProgressNumbers ==
  {signals[k].current : k \in {j \in 1..Len(signals) :
                                 signals[j].signal = "progress_update"}}

\* C22: a file that cannot be opened never aborts the run: the run emits
\* one result entry for it that carries the error text at position 0, goes
\* on with every file after it and ends with its normal terminal status.
C22_UnreadableFileIsIsolated ==
  RanToEnd
  => \A k \in 1..Len(files_to_search) :
       LET file == FileOf(files_to_search[k])
           res  == ResultsOf(file.path)
       IN  ~file.readable
           => /\ Len(res) = 1
              /\ res[1].content = ErrorReadingFile("[Errno 13] Permission denied")
              /\ res[1].line_number = 0
              /\ (k + 1)..Len(files_to_search) \subseteq ProgressNumbers
              /\ LastSignal.signal = "search_finished"
              /\ LastSignal.message = SearchComplete
              /\ LastSignal.total = Len(files_to_search)

\* C22 witness: a finished run over an unreadable file followed by a
\* readable one, both reported
C22_Witness ==
  /\ RanToEnd
  /\ Len(files_to_search) = 2
  /\ ~FileOf(files_to_search[1]).readable
  /\ FileOf(files_to_search[2]).readable
  /\ Len(ResultsOf(files_to_search[1])) = 1
  /\ Len(ResultsOf(files_to_search[2])) = 1

(***************************************************************************)
(* Phrases and the formula field.                                          *)
(***************************************************************************)
\* the letters A-F that stand as operands in a text: a letter with no
\* letter before or after it
ReferencedLetters(text) ==
  {Upper(text)[i] : i \in
     {j \in 1..Len(text) :
        /\ Upper(text)[j] \in LetterSet
        /\ (j = 1 \/ ~IsIdentChar(text[j - 1]))
        /\ (j = Len(text) \/ ~IsIdentChar(text[j + 1]))}}

\* C23: a letter referenced in the formula whose phrase text is empty gets
\* a warning that names it and no error; the result is valid iff its error
\* list is empty, whatever the warnings and the phrases are.
C23_EmptyPhraseIsWarning ==
  Validated
  => /\ validation_result.is_valid <=> validation_result.errors = << >>
     /\ \A k \in 1..Len(validation_result.errors) :
          validation_result.errors[k].kind # "NoPhrase"
     /\ \A letter \in ReferencedLetters(ValidatedFormula) :
          Strip(phrase_inputs[letter]) = << >>
          => \E k \in 1..Len(validation_result.warnings) :
               /\ validation_result.warnings[k].kind = "NoPhrase"
               /\ letter \in CharsOf(validation_result.warnings[k].t1)

\* C23 witness: a formula that refers to B, whose phrase is empty, is
\* valid and has the warning
C23_Witness ==
  /\ dialog = "Warnings"
  /\ "B" \in ReferencedLetters(ValidatedFormula)
  /\ phrase_inputs["A"] # << >>
  /\ phrase_inputs["B"] = << >>
  /\ validation_result.is_valid
  /\ HasMessage(validation_result.warnings, "NoPhrase", << "B" >>)

\* C24: validation errors always block evaluation: whatever the user did
\* before, a search worker is never started with a non-empty formula for
\* which the validation reports an error; its formula is the one of the
\* formula field.
C24_ErrorsBlockSearch ==
  pc = "ready"
  => /\ search_params.formula = Strip(formula_input)
     /\ \/ search_params.formula = << >>
        \/ _comprehensive_formula_validation(search_params.formula).errors
             = << >>

\* C24 witness: Search was pressed with phrases set and a formula that has
\* errors; the message box is shown and no worker exists
C24_Witness ==
  /\ dialog = "InvalidFormula"
  /\ validation_result.errors # << >>
  /\ phrase_inputs["A"] # << >>
  /\ pc = "none"

\* the result carries an error text in place of matched content
CarriesErrorText(r) ==
  \E e \in {r.content[k] : k \in 1..Len(r.content)} :
    r.content = ErrorReadingFile(e)

\* C25: a result entry that carries error text instead of matched content
\* is emitted only for a file that could not be opened or read: scanning a
\* readable file with a formula that passed validation never produces an
\* "Error reading file" entry.
C25_ErrorEntriesOnlyForUnreadable ==
  \A k \in 1..Len(Results) :
    (/\ CarriesErrorText(Results[k])
     /\ _comprehensive_formula_validation(search_params.formula).is_valid)
    => ~FileOf(Results[k].file_path).readable

\* C26: validation is sound for evaluation: for a formula the validation
\* accepts, and whichever phrases are present in the content, the call of
\* _evaluate_formula computes its result without an exception.
C26_ValidatedFormulasEvaluate ==
  (/\ eval_result.called
   /\ Strip(formula_input) # << >>
   /\ _comprehensive_formula_validation(Strip(formula_input)).is_valid)
  => eval_result.outcome.raised = ""

\* C27: the formula _auto_construct_formula builds from the phrases that
\* are set is accepted by the formula check of _validate_search_parameters,
\* whichever phrases are set: a search with the auto-constructed formula
\* in the field is not blocked as invalid.
C27_AutoFormulaIsValid ==
  LET auto_formula == _auto_construct_formula(phrase_inputs) IN
  auto_formula # << >>
  => /\ _comprehensive_formula_validation(auto_formula).is_valid
     /\ (Strip(formula_input) = auto_formula
         => _validate_search_parameters # "InvalidFormula")

\* what an edit of a phrase may do to the formula field
AutoFormulaStep ==
  IF formula_input' # formula_input
  THEN /\ \/ Strip(formula_input) = << >>
          \/ Strip(formula_input) = _last_auto_formula
       /\ _last_auto_formula' = formula_input'
  ELSE _last_auto_formula' = _last_auto_formula

\* C28: editing a phrase never overwrites a formula the user entered: the
\* edit changes the formula field only when the field is empty or still
\* holds the last auto-constructed formula, and then _last_auto_formula is
\* the new content of the field; otherwise both are left as they are.
C28_ManualFormulaKept == [][UserEditsPhrase => AutoFormulaStep]_vars

\* C28 witness: the phrase of A was set while the field held the formula
\* "B" the user typed; the field still holds it
C28_Witness ==
  /\ formula_input = << "B" >>
  /\ phrase_inputs["A"] # << >>
  /\ _last_auto_formula = << >>

(***************************************************************************)
(* One run at a time, and its end.                                         *)
(***************************************************************************)
\* a worker exists whose run_search has not returned
RunActive == pc \in {"ready", "loop", "file", "matches", "emit"}

\* the step creates a worker and starts its thread
StartsRun == pc' = "ready" /\ pc # "ready"

\* C29: at most one search run is active at any time: the search button is
\* disabled from the start of a run until its search_finished has been
\* handled, a worker is created only when no earlier run is active, the
\* results pane is cleared then, and every result shown after that is one
\* of the run started last.
C29_OneRunAtATime ==
  /\ [](RunActive => ~btn_search_enabled)
  /\ [](pc = "ready" => signals = << >>)
  /\ []((pc \notin {"none", "ready"}) => Len(Results) = match_count)
  /\ [][StartsRun => (/\ ~RunActive
                      /\ btn_search_enabled
                      /\ ~btn_search_enabled'
                      /\ signals' = << >>)]_vars

\* C29 witness: a second run was started after the first one had emitted
\* results and its search_finished had been handled
C29_Witness ==
  /\ pc = "ready"
  /\ files_to_search # << >>
  /\ match_count > 0
  /\ ~btn_search_enabled

\* the places of the search_finished signals among the signals
FinishedAt ==
  {k \in 1..Len(signals) : signals[k].signal = "search_finished"}

\* the progress_update signals of the run, in emission order
Progress == SelectSeq(signals, LAMBDA sig : sig.signal = "progress_update")

\* C30: every run terminates and emits search_finished exactly once, as
\* its last signal, on every path; nothing is emitted after it; the values
\* of progress_update within a run increase strictly from 1 and never
\* exceed the number of files.
C30_RunEndsWithOneFinished ==
  /\ [](RunActive => FinishedAt = {})
  /\ [](pc = "done" => FinishedAt = {Len(signals)})
  /\ [](\A k \in 1..Len(Progress) :
           /\ Progress[k].current = k
           /\ Progress[k].current <= Progress[k].total
           /\ Progress[k].total = Len(files_to_search))
  /\ (pc = "ready" ~> pc = "done")

\* C30 witness: a run that was cancelled while it worked on its first file
\* has ended with search_finished as its last signal
C30_Witness ==
  /\ pc = "done"
  /\ is_cancelled
  /\ file_index < Len(files_to_search)
  /\ Len(Progress) >= 1
  /\ LastSignal.signal = "search_finished"

====
